---------------------------- MODULE Spec2Model ----------------------------
(***************************************************************************)
(* A model of three pieces of the spacegate kernel:                        *)
(*   - the configuration loader and its watch loop                         *)
(*       (kernel/src/config/config_by_redis.rs),                           *)
(*   - the status filter: its response-side state machine and the life     *)
(*       cycle of its status server (kernel/src/plugins/filters/status.rs).*)
(* Each piece has a specification of its own (SpecWatch, SpecStatus,       *)
(* SpecServer) over the variables it reads and writes; the variables of    *)
(* the other pieces stay at their initial value.                           *)
(***************************************************************************)
EXTENDS Naturals, Integers, Sequences, FiniteSets, TLC

(***************************************************************************)
(* Bounds of the model and value domains.                                  *)
(***************************************************************************)
\* Capacity of the debounce LRU.  The source builds it with capacity 100
\* (config_by_redis.rs:17); the model runs it with a small capacity so that
\* eviction is reachable, and every statement below is made relative to it.
LruCap == 2
\* Trigger keys that may be in the store at the same time.
MaxKeys == 2

\* The uniques a producer may use: enough to overflow an LRU of two entries.
\* WatchUniques are those of the keys of the full watcher specification.
Uniques == {1, 2, 3, 4}
WatchUniques == {1, 2, 3}
GwNames == {"g1"}
Objs == {"gateway", "httproute", "other"}

\* A trigger key, as the fields that split("##") yields once the prefix is
\* stripped: <<unique, obj, gateway_name>>, or fewer fields when malformed.
WellFormedKeys == {<<u, o, g>> : u \in WatchUniques, o \in Objs, g \in GwNames}
MalformedKeys == {<<u, "gateway">> : u \in WatchUniques}
Keys == WellFormedKeys \cup MalformedKeys

\* Status filter: gateways with a status filter, backend names, statuses.
StatusGateways == {"gw1", "gw2"}
Backends == {"a", "b"}
\* The backends that answer requests in the response-filter specification.
RespBackends == {"a"}
NoStatus == "none"
Statuses == {"Good", "Minor", "Major"}
\* Largest unhealthy_threshold and interval the model configures, the last
\* second of its clock, and the most failures it lets an entry count.
\* SgFilterStatus::default(): unhealthy_threshold and interval.
DefaultThreshold == 3
DefaultInterval == 5
MaxThreshold == 3
MaxInterval == 2
MaxNow == 3
MaxTimes == MaxThreshold + 2

\* Status server: filter instances, the ports they may be configured with,
\* and the serve tasks the model lets the process spawn.
Insts == {"f1", "f2"}
Ports == {8110, 8111}
NoOne == "-"
MaxTasks == 3
TaskIds == 1 .. MaxTasks

\* Where a pass or the handling of one trigger may fail.
PassFaults == {"none", "cmd"}
HandleFaults == {"none", "hget", "deser_gw", "lrange", "deser_route",
                 "shutdown", "do_startup", "route_init"}
CacheFaults == {"hget", "lrange"}

VARIABLES
    \* ---- configuration loader and watcher
    trig,        \* trigger keys present in the store
    conf,        \* gateway names that have a field in the hash sg:conf:gateway
    loadRes,     \* result of init: "none" (not called), "Ok", "NotFound", "Err"
    wpc,         \* watch task: "off", "tick" (waiting), "scan", "dead" (panicked)
    scanq,       \* keys the running pass has still to visit, in scan order
    lru,         \* CHANGE_CACHE, most recently used first
    last,        \* the trigger handled last: its key, skipped or not, the runtime
                 \* calls made for it, and the step that failed ("none": none)
    applied,     \* per unique: dispatches that made a runtime call (capped at 2)
    since,       \* per unique: the other uniques put since it was last put
    \* ---- status filter: response side
    now,                 \* Utc::now().timestamp(), in seconds
    unhealthy_threshold, \* the filter's option of that name (U)
    interval,            \* the filter's option of that name (W), in seconds
    serverErr,           \* SERVER_ERR: backend name -> <<times, expire>>, <<>>: no entry
    store,               \* status hash of each gateway: backend name -> status
    run,                 \* per backend: error responses in a row, each after the
                         \* first arriving while the entry was unexpired
    fromAbsent,          \* per backend: the run began with no entry for it
    lastResp,            \* the response handled last and what it found
    \* ---- status filter: life cycle of the status server
    port,        \* per filter instance: its option `port`
    mutex,       \* holder of the lock on SHUTDOWN_TX (a filter instance), or NoOne
    shutdownTx,  \* SHUTDOWN_TX: port -> the serve task registered for it, or 0
    tasks,       \* per serve task: its port and "none", "running", "signalled", "done"
                 \* and the filter instance whose init spawned it
    ipc,         \* per filter instance: where it is in init or destroy
    old,         \* per filter instance: the task its call removed from the map, or 0
    started,     \* per filter instance: the task its init spawned, or 0
    ires,        \* per filter instance: the call that is returning and its result
    \* ---- outbound HTTP client
    defaultClient, \* DEFAULT_CLIENT: the client it holds, 0 while unset
    built,         \* clients do_init has built so far (they are numbered 1, 2, ..)
    cpc,           \* per thread: where it is in http_client::init
    made,          \* per thread: the client its do_init built, 0 if none
    got,           \* per thread: the client its last init returned, 0 if none
    lastReq,       \* the last call of request: its arguments, the outbound calls
                   \* it made and what it returned
    lastRaw,       \* the last direct call of raw_request and its result
    \* ---- status filter: concurrent calls of resp_filter
    serverErrLock, \* holder of the lock on SERVER_ERR (a call), or NoOne
    rf,            \* per call of resp_filter: where it is, its response and what
                   \* it has read
    base           \* the store and SERVER_ERR before the first of these calls

watchVars == <<trig, conf, loadRes, wpc, scanq, lru, last, applied, since>>
respVars == <<now, unhealthy_threshold, interval, serverErr, run, fromAbsent, lastResp>>
serverVars == <<port, mutex, shutdownTx, tasks, ipc, old, started, ires>>

clientVars == <<defaultClient, built, cpc, made, got, lastReq, lastRaw>>
concVars == <<serverErrLock, rf, base>>

vars == <<watchVars, respVars, store, serverVars, clientVars, concVars>>

(***************************************************************************)
(* Helpers on sequences.                                                   *)
(***************************************************************************)
Range(s) == {s[i] : i \in DOMAIN s}

RECURSIVE Without(_, _)
Without(s, x) ==
    IF s = <<>> THEN <<>>
    ELSE IF Head(s) = x THEN Without(Tail(s), x)
    ELSE <<Head(s)>> \o Without(Tail(s), x)

\* All orders in which a scan may return the keys of set S.
Orders(S) ==
    {q \in [1 .. Cardinality(S) -> S] : \A i, j \in DOMAIN q : i # j => q[i] # q[j]}

Min(a, b) == IF a < b THEN a ELSE b

(***************************************************************************)
(* CHANGE_CACHE: LruCache::put.  Returns the new cache, whether the key    *)
(* was already there (put returns Some), and the unique dropped (0: none). *)
(***************************************************************************)
LruPut_NoRecord(l, u) == [lru |-> l, old |-> u \in Range(l), out |-> 0]

LruPut_NoRefresh(l, u) ==
    IF u \in Range(l)
    THEN [lru |-> l, old |-> TRUE, out |-> 0]
    ELSE IF Len(l) >= LruCap
    THEN [lru |-> <<u>> \o SubSeq(l, 1, LruCap - 1), old |-> FALSE, out |-> l[Len(l)]]
    ELSE [lru |-> <<u>> \o l, old |-> FALSE, out |-> 0]

LruPut(l, u) ==
    IF u \in Range(l)
    THEN [lru |-> <<u>> \o Without(l, u), old |-> TRUE, out |-> 0]
    ELSE IF Len(l) >= LruCap
    THEN [lru |-> <<u>> \o SubSeq(l, 1, LruCap - 1), old |-> FALSE, out |-> l[Len(l)]]
    ELSE [lru |-> <<u>> \o l, old |-> FALSE, out |-> 0]

\* `if lock.put(unique.to_string(), true).is_some() { continue; }`: the
\* trigger is skipped when its unique was in the cache.
AlreadySeen_Ignored(r) == FALSE

AlreadySeen(r) == r.old

(***************************************************************************)
(* The dispatch of one trigger that passed the debounce: the runtime calls *)
(* it makes and whether the task panics, given where it fails.             *)
(*   k       the key's fields; present  the gateway has a config field     *)
(***************************************************************************)
HandlePath_RouteAsGateway(k, present) ==
    IF Len(k) < 3 THEN <<"index">>
    ELSE IF present
    THEN <<"hget", "deser_gw", "lrange", "deser_route">> \o
         (CASE k[2] \in {"gateway", "httproute"} -> <<"shutdown", "do_startup">>
            [] OTHER -> <<>>)
    ELSE <<"hget">> \o
         (CASE k[2] = "gateway" -> <<"shutdown">>
            [] OTHER -> <<>>)

HandlePath_StartupFirst(k, present) ==
    IF Len(k) < 3 THEN <<"index">>
    ELSE IF present
    THEN <<"hget", "deser_gw", "lrange", "deser_route">> \o
         (CASE k[2] = "gateway" -> <<"do_startup", "shutdown">>
            [] k[2] = "httproute" -> <<"route_init">>
            [] OTHER -> <<>>)
    ELSE <<"hget">> \o
         (CASE k[2] = "gateway" -> <<"shutdown">>
            [] OTHER -> <<>>)

\* The steps the handling of k goes through, in order; a fault at a step
\* that is not on the path cannot happen.
HandlePath(k, present) ==
    IF Len(k) < 3 THEN <<"index">>
    ELSE IF present
    THEN <<"hget", "deser_gw", "lrange", "deser_route">> \o
         (CASE k[2] = "gateway" -> <<"shutdown", "do_startup">>
            [] k[2] = "httproute" -> <<"route_init">>
            [] OTHER -> <<>>)
    ELSE <<"hget">> \o
         (CASE k[2] = "gateway" -> <<"shutdown">>
            [] OTHER -> <<>>)

RuntimeOps == {"shutdown", "do_startup", "route_init"}

\* The prefix of path p up to and including the step that fails.
RECURSIVE UpTo(_, _)
UpTo(p, fault) ==
    IF p = <<>> THEN <<>>
    ELSE IF Head(p) = fault THEN <<Head(p)>>
    ELSE <<Head(p)>> \o UpTo(Tail(p), fault)

RECURSIVE CallsOf(_, _)
CallsOf(p, g) ==
    IF p = <<>> THEN <<>>
    ELSE IF Head(p) \in RuntimeOps THEN <<<<Head(p), g>>>> \o CallsOf(Tail(p), g)
    ELSE CallsOf(Tail(p), g)

FaultPossible(k, present, fault) ==
    \/ fault = "none" /\ Len(k) >= 3
    \/ fault = "index" /\ Len(k) < 3
    \/ fault \in Range(HandlePath(k, present)) /\ fault # "index"

\* Every unwrap on the path panics the task; a call that returned an error
\* was still made.
Dispatch(k, present, fault) ==
    LET p == HandlePath(k, present)
        done == IF fault = "none" THEN p ELSE UpTo(p, fault)
    IN  [calls |-> IF Len(k) < 3 THEN <<>> ELSE CallsOf(done, k[3]),
         panic |-> fault # "none"]

(***************************************************************************)
(* The store's producers (outside the process).                            *)
(***************************************************************************)
PutTrigger(k) ==
    /\ wpc = "tick"
    /\ k \notin trig
    /\ Cardinality(trig) < MaxKeys
    /\ trig' = trig \cup {k}
    /\ UNCHANGED <<conf, loadRes, wpc, scanq, lru, last, applied, since, respVars, store, serverVars, clientVars, concVars>>

DelTrigger(k) ==
    /\ wpc = "tick"
    /\ k \in trig
    /\ trig' = trig \ {k}
    /\ UNCHANGED <<conf, loadRes, wpc, scanq, lru, last, applied, since, respVars, store, serverVars, clientVars, concVars>>

SetGateway(g) ==
    /\ wpc \in {"tick", "scan"}
    /\ g \notin conf
    /\ conf' = conf \cup {g}
    /\ UNCHANGED <<trig, loadRes, wpc, scanq, lru, last, applied, since, respVars, store, serverVars, clientVars, concVars>>

DelGateway(g) ==
    /\ wpc \in {"tick", "scan"}
    /\ g \in conf
    /\ conf' = conf \ {g}
    /\ UNCHANGED <<trig, loadRes, wpc, scanq, lru, last, applied, since, respVars, store, serverVars, clientVars, concVars>>

(***************************************************************************)
(* init: the initial load, then the spawn of the watch task.               *)
(***************************************************************************)
LoaderInit_SpawnsAlways(fault) ==
    /\ loadRes = "none"
    /\ loadRes' = IF fault # "none" THEN "Err"
                  ELSE IF conf = {} THEN "NotFound"
                  ELSE "Ok"
    /\ wpc' = "tick"
    /\ UNCHANGED <<trig, conf, scanq, lru, last, applied, since, respVars, store, serverVars, clientVars, concVars>>

LoaderInit(fault) ==
    /\ loadRes = "none"
    /\ loadRes' = IF fault # "none" THEN "Err"
                  ELSE IF conf = {} THEN "NotFound"
                  ELSE "Ok"
    /\ wpc' = IF loadRes' = "Ok" THEN "tick" ELSE wpc
    /\ UNCHANGED <<trig, conf, scanq, lru, last, applied, since, respVars, store, serverVars, clientVars, concVars>>

(***************************************************************************)
(* The watch loop.                                                         *)
(***************************************************************************)
NoTrigger == [key |-> <<>>, skipped |-> FALSE, calls |-> <<>>, fault |-> "none"]

\* The head of one pass: cmd() and scan_match(), both unwrapped.
PassStart(fault, order) ==
    /\ wpc = "tick"
    /\ order \in Orders(trig)
    /\ IF fault = "none"
       THEN wpc' = "scan" /\ scanq' = order
       ELSE wpc' = "dead" /\ scanq' = <<>>
    /\ UNCHANGED <<trig, conf, loadRes, lru, last, applied, since, respVars, store, serverVars, clientVars, concVars>>

\* One iteration of `while let Some(changed_key) = key_iter.next_item()`.
HandleTrigger(fault) ==
    /\ wpc = "scan"
    /\ scanq # <<>>
    /\ LET k == Head(scanq)
           u == k[1]
           r == LruPut(lru, u)
           present == Len(k) >= 3 /\ k[3] \in conf
           d == Dispatch(k, present, fault)
       IN  /\ lru' = r.lru
           /\ since' = [x \in Uniques |->
                            IF x = u THEN {}
                            ELSE IF x \in Range(lru) \/ since[x] # {} THEN since[x] \cup {u}
                            ELSE {}]
           /\ IF AlreadySeen(r)
              THEN \* continue
                   /\ fault = "none"
                   /\ last' = [key |-> k, skipped |-> TRUE, calls |-> <<>>, fault |-> "none"]
                   /\ scanq' = Tail(scanq)
                   /\ UNCHANGED <<wpc, applied>>
              ELSE /\ FaultPossible(k, present, fault)
                   /\ last' = [key |-> k, skipped |-> FALSE, calls |-> d.calls, fault |-> fault]
                   /\ applied' = IF d.calls = <<>> THEN applied
                                 ELSE [applied EXCEPT ![u] = Min(@ + 1, 2)]
                   /\ IF d.panic
                      THEN wpc' = "dead" /\ scanq' = <<>>
                      ELSE wpc' = wpc /\ scanq' = Tail(scanq)
    /\ UNCHANGED <<trig, conf, loadRes, respVars, store, serverVars, clientVars, concVars>>

\* The scan is exhausted: interval.tick().await, then the next pass.
PassEnd ==
    /\ wpc = "scan"
    /\ scanq = <<>>
    /\ wpc' = "tick"
    /\ last' = NoTrigger
    /\ UNCHANGED <<trig, conf, loadRes, scanq, lru, applied, since, respVars, store, serverVars, clientVars, concVars>>

(***************************************************************************)
(* The status store (status_plugin): a hash per gateway, field = backend.  *)
(***************************************************************************)
\* get_status: the field, absent (NoStatus) when the hash has none.
GetStatus(st, g, b) == st[g][b]

\* update_status: writes the field, whatever it held.
UpdateStatus(st, g, b, status) == [st EXCEPT ![g][b] = status]

\* clean_status: deletes the hash.
CleanStatus(st, g) == [st EXCEPT ![g] = [b \in Backends |-> NoStatus]]

(***************************************************************************)
(* resp_filter.                                                            *)
(***************************************************************************)
NoBackend == "-"
\* What the response before a success was: an error for the same backend that
\* resp_filter handled without a cache failure (err), the gateway it came
\* through, and whether the run of errors it ended began with no entry.
NoAfter == [err |-> FALSE, g |-> "-", abs |-> FALSE]
NoResp == [g |-> "-", b |-> NoBackend, kind |-> "none", ok |-> TRUE,
           pre |-> NoStatus, entry |-> "absent", times |-> 0, fsame |-> TRUE,
           after |-> NoAfter]

\* `*expire > now`
Unexpired_Inclusive(e, t) == e[2] >= t

Unexpired(e, t) == e[2] > t

\* The status an error response writes when it finds an unexpired entry:
\* `if *times >= self.unhealthy_threshold { Major } else { Minor }`
ErrorStatus_After(times, threshold) ==
    IF times > threshold THEN "Major" ELSE "Minor"

ErrorStatus_Always(times, threshold) == "Major"

ErrorStatus(times, threshold) ==
    IF times >= threshold THEN "Major" ELSE "Minor"

\* `let new_times = *times + 1` on a u16.
NextTimes(times) == (times + 1) % 65536

\* Whether a response that is no error writes Good, given get_status's answer:
\* `if let Some(status) = get_status(..) { if status != Good { update } }`
WritesGood_Never(status) == FALSE

WritesGood(status) == status # NoStatus /\ status # "Good"

\* How an entry looks to an arriving response.
EntryState(e, t) ==
    IF e = <<>> THEN "absent" ELSE IF Unexpired(e, t) THEN "open" ELSE "expired"

\* The cache calls resp_filter makes for response (b, err): "update", "get".
CacheCalls(g, b, err) ==
    IF b = NoBackend THEN {}
    ELSE IF err
    THEN IF EntryState(serverErr[b], now) = "expired" THEN {} ELSE {"update"}
    ELSE {"get"} \cup (IF WritesGood(GetStatus(store, g, b)) THEN {"update"} ELSE {})

RespError_CountsFailed(g, b, fault) ==
    LET e == serverErr[b]
        es == EntryState(e, now)
        ok == fault = "none"
    IN  /\ fault \in {"none"} \cup CacheCalls(g, b, TRUE)
        /\ es = "open" => e[1] < MaxTimes
        /\ store' = IF ~ok \/ es = "expired" THEN store
                    ELSE IF es = "absent" THEN UpdateStatus(store, g, b, "Minor")
                    ELSE UpdateStatus(store, g, b, ErrorStatus(e[1], unhealthy_threshold))
        /\ serverErr' = IF es = "open"
                        THEN [serverErr EXCEPT ![b] = <<NextTimes(e[1]), now + interval>>]
                        ELSE [serverErr EXCEPT ![b] = <<1, now + interval>>]
        /\ run' = IF ~ok THEN run
                  ELSE IF es = "open" /\ run[b] >= 1 THEN [run EXCEPT ![b] = @ + 1]
                  ELSE [run EXCEPT ![b] = 1]
        /\ fromAbsent' = IF ~ok THEN fromAbsent
                         ELSE IF es = "open" /\ run[b] >= 1 THEN fromAbsent
                         ELSE [fromAbsent EXCEPT ![b] = (es = "absent")]
        /\ lastResp' = [g |-> g, b |-> b, kind |-> "error", ok |-> ok,
                        pre |-> GetStatus(store, g, b), entry |-> es,
                        times |-> IF e = <<>> THEN 0 ELSE e[1],
                        fsame |-> serverErr' = serverErr, after |-> NoAfter]
        /\ UNCHANGED <<now, unhealthy_threshold, interval>>

\* An error response for backend b through gateway g; fault names the cache
\* call that fails ("none": none does).
RespError(g, b, fault) ==
    LET e == serverErr[b]
        es == EntryState(e, now)
        ok == fault = "none"
    IN  /\ fault \in {"none"} \cup CacheCalls(g, b, TRUE)
        /\ es = "open" => e[1] < MaxTimes
        /\ store' = IF ~ok \/ es = "expired" THEN store
                    ELSE IF es = "absent" THEN UpdateStatus(store, g, b, "Minor")
                    ELSE UpdateStatus(store, g, b, ErrorStatus(e[1], unhealthy_threshold))
        /\ serverErr' = IF ~ok THEN serverErr
                        ELSE IF es = "open"
                        THEN [serverErr EXCEPT ![b] = <<NextTimes(e[1]), now + interval>>]
                        ELSE [serverErr EXCEPT ![b] = <<1, now + interval>>]
        /\ run' = IF ~ok THEN run
                  ELSE IF es = "open" /\ run[b] >= 1 THEN [run EXCEPT ![b] = @ + 1]
                  ELSE [run EXCEPT ![b] = 1]
        /\ fromAbsent' = IF ~ok THEN fromAbsent
                         ELSE IF es = "open" /\ run[b] >= 1 THEN fromAbsent
                         ELSE [fromAbsent EXCEPT ![b] = (es = "absent")]
        /\ lastResp' = [g |-> g, b |-> b, kind |-> "error", ok |-> ok,
                        pre |-> GetStatus(store, g, b), entry |-> es,
                        times |-> IF e = <<>> THEN 0 ELSE e[1],
                        fsame |-> serverErr' = serverErr, after |-> NoAfter]
        /\ UNCHANGED <<now, unhealthy_threshold, interval>>

\* A response that is no error for backend b through gateway g.
RespSuccess(g, b, fault) ==
    LET e == serverErr[b]
        ok == fault = "none"
        cur == GetStatus(store, g, b)
    IN  /\ fault \in {"none"} \cup CacheCalls(g, b, FALSE)
        /\ store' = IF ok /\ WritesGood(cur) THEN UpdateStatus(store, g, b, "Good")
                    ELSE store
        /\ serverErr' = serverErr
        /\ run' = [run EXCEPT ![b] = 0]
        /\ fromAbsent' = [fromAbsent EXCEPT ![b] = FALSE]
        /\ lastResp' = [g |-> g, b |-> b, kind |-> "success", ok |-> ok,
                        pre |-> cur, entry |-> EntryState(e, now),
                        times |-> IF e = <<>> THEN 0 ELSE e[1],
                        fsame |-> serverErr' = serverErr,
                        after |-> IF lastResp.kind = "error" /\ lastResp.ok /\ lastResp.b = b
                                  THEN [err |-> TRUE, g |-> lastResp.g, abs |-> fromAbsent[b]]
                                  ELSE NoAfter]
        /\ UNCHANGED <<now, unhealthy_threshold, interval>>

\* A response whose context has no chosen backend: resp_filter passes it on.
RespNoBackend(g) ==
    /\ lastResp' = [NoResp EXCEPT !.g = g, !.kind = "skip"]
    /\ UNCHANGED <<now, unhealthy_threshold, interval, serverErr, run, fromAbsent>>

\* One second passes.
Tick ==
    /\ now < MaxNow
    /\ now' = now + 1
    /\ UNCHANGED <<unhealthy_threshold, interval, serverErr, run, fromAbsent, lastResp>>

(***************************************************************************)
(* resp_filter step by step, for calls that run concurrently: the error    *)
(* path locks SERVER_ERR and keeps the lock over its store write until the *)
(* entry is inserted; the other path reads the status and writes Good      *)
(* without any lock.                                                       *)
(***************************************************************************)
\* Concurrent calls of resp_filter, one response each.
Calls == {"q1", "q2", "q3"}

\* The options and the times the concurrent calls run with.
ConcThresholds == {1, 2}
ConcIntervals == {0, 1}

NoWork == [pc |-> "idle", kind |-> "none", g |-> "-", b |-> NoBackend, es |-> "absent",
           times |-> 0, seen |-> NoStatus, ok |-> TRUE]

\* `SERVER_ERR.lock().await` returns when nobody holds the lock.
LockFree_Always(holder) == TRUE

LockFree(holder) == holder = NoOne

\* resp_filter run alone from shared state s on an error response.
SeqError(s, g, b) ==
    LET e == s.serverErr[b]
        es == EntryState(e, now)
    IN  [store |-> IF es = "expired" THEN s.store
                   ELSE IF es = "absent" THEN UpdateStatus(s.store, g, b, "Minor")
                   ELSE UpdateStatus(s.store, g, b, ErrorStatus(e[1], unhealthy_threshold)),
         serverErr |-> IF es = "open"
                       THEN [s.serverErr EXCEPT ![b] = <<NextTimes(e[1]), now + interval>>]
                       ELSE [s.serverErr EXCEPT ![b] = <<1, now + interval>>]]

\* resp_filter run alone from shared state s on a response that is no error.
SeqSuccess(s, g, b) ==
    IF WritesGood(GetStatus(s.store, g, b))
    THEN [s EXCEPT !.store = UpdateStatus(s.store, g, b, "Good")]
    ELSE s

\* The error path up to its first await on the store: the lock is taken, now
\* and the backend's entry are read.
RfLock(q, g, b) ==
    /\ rf[q].pc = "idle"
    /\ LockFree(serverErrLock)
    /\ serverErrLock' = q
    /\ LET e == serverErr[b]
           es == EntryState(e, now)
       IN  rf' = [rf EXCEPT ![q] =
                    [NoWork EXCEPT !.pc = IF es = "expired" THEN "insert" ELSE "write",
                                   !.kind = "error", !.g = g, !.b = b, !.es = es,
                                   !.times = IF e = <<>> THEN 0 ELSE e[1]]]
    /\ UNCHANGED <<store, serverErr, base>>

\* `update_status(..).await?` of the error path; a failure returns from
\* resp_filter and drops the guard.
RfWrite(q, ok) ==
    /\ rf[q].pc = "write"
    /\ LET r == rf[q]
           status == IF r.es = "absent" THEN "Minor"
                     ELSE ErrorStatus(r.times, unhealthy_threshold)
       IN  store' = IF ok THEN UpdateStatus(store, r.g, r.b, status) ELSE store
    /\ rf' = [rf EXCEPT ![q].pc = IF ok THEN "insert" ELSE "done", ![q].ok = ok]
    /\ serverErrLock' = IF ok THEN serverErrLock ELSE NoOne
    /\ UNCHANGED <<serverErr, base>>

\* `server_err.insert(..)`, after which the guard is dropped.
RfInsert(q) ==
    /\ rf[q].pc = "insert"
    /\ LET r == rf[q]
       IN  serverErr' = [serverErr EXCEPT ![r.b] =
                            IF r.es = "open" THEN <<NextTimes(r.times), now + interval>>
                            ELSE <<1, now + interval>>]
    /\ rf' = [rf EXCEPT ![q].pc = "done"]
    /\ serverErrLock' = NoOne
    /\ UNCHANGED <<store, base>>

\* `get_status(..).await?` of the other path.
RfGet(q, g, b, ok) ==
    /\ rf[q].pc = "idle"
    /\ LET seen == GetStatus(store, g, b)
       IN  rf' = [rf EXCEPT ![q] =
                    [NoWork EXCEPT !.pc = IF ok /\ WritesGood(seen) THEN "put" ELSE "done",
                                   !.kind = "success", !.g = g, !.b = b,
                                   !.seen = seen, !.ok = ok]]
    /\ UNCHANGED <<store, serverErr, serverErrLock, base>>

\* `update_status(.., Status::Good).await?` of the other path.
RfPut(q, ok) ==
    /\ rf[q].pc = "put"
    /\ store' = IF ok THEN UpdateStatus(store, rf[q].g, rf[q].b, "Good") ELSE store
    /\ rf' = [rf EXCEPT ![q].pc = "done", ![q].ok = ok]
    /\ UNCHANGED <<serverErr, serverErrLock, base>>

(***************************************************************************)
(* SgFilterStatus::init and ::destroy, and the serve task init spawns.     *)
(***************************************************************************)
\* A rule's `backends: Option<Vec<..>>`, each reference by its name_or_host.
BackendLists == {<<>>, <<"a">>, <<"b">>, <<"a", "b">>}
RuleValues == {[some |-> FALSE, backends |-> <<>>]}
                \cup {[some |-> TRUE, backends |-> l] : l \in BackendLists}
\* init_dto.http_route_rules: no rule, one rule or two.
RuleSets == {<<>>} \cup {<<r>> : r \in RuleValues}
                  \cup {<<r, q>> : r \in RuleValues, q \in RuleValues}
\* The gateway whose filters are initialised and destroyed.
SeedGateways == {"gw1"}
\* More cache calls than any of these rule lists makes init issue.
SeedCalls == 0 .. 6

\* The backend names init writes, in the order of its two loops.
RECURSIVE Named(_)
Named(rules) ==
    IF rules = <<>> THEN <<>>
    ELSE (IF Head(rules).some THEN Head(rules).backends ELSE <<>>) \o Named(Tail(rules))

\* The first n of init's update_status calls, every one writing
\* Status::default(), which is Good.
RECURSIVE Seed(_, _, _, _)
Seed(st, g, names, n) ==
    IF n = 0 \/ names = <<>> THEN st
    ELSE Seed(UpdateStatus(st, g, Head(names), "Good"), g, Tail(names), n - 1)

SeedOutcome_NoClean(st, g, rules, failAt) ==
    [store |-> Seed(st, g, Named(rules), Len(Named(rules))), ok |-> failAt = 0]

\* init's cache calls: cache_client::get, clean_status, then one
\* update_status per named backend.  failAt = 0: none fails; 1: get; 2: clean;
\* 2 + j: the j-th update.
SeedOutcome(st, g, rules, failAt) ==
    LET names == Named(rules)
    IN  IF failAt = 0 THEN [store |-> Seed(CleanStatus(st, g), g, names, Len(names)), ok |-> TRUE]
        ELSE IF failAt <= 2 THEN [store |-> st, ok |-> FALSE]
        ELSE [store |-> Seed(CleanStatus(st, g), g, names, failAt - 3), ok |-> FALSE]

Live(t) == tasks[t].state \in {"running", "signalled"}

\* Some serve task of this process still holds the port.
PortBusy(p) == \E t \in TaskIds : tasks[t].port = p /\ Live(t)

\* `old_shutdown.0.send(()).ok()`: a running server starts its graceful
\* shutdown; a task that has ended has dropped its receiver and nothing happens.
Signal(ts, t) ==
    IF ts[t].state = "running" THEN [ts EXCEPT ![t].state = "signalled"] ELSE ts

\* `let _ = old_shutdown.1.await` in init: resumes once the task has ended.
InitJoined_NoWait(t) == TRUE

InitJoined(t) == tasks[t].state = "done"

\* `let _ = shutdown.1.await` in destroy.
DestroyJoined_NoWait(t) == TRUE

DestroyJoined(t) == tasks[t].state = "done"

NoCall == [op |-> "none", res |-> "none", gw |-> "-", named |-> {}]

\* init up to the removal of the old entry.  Below gateway level it logs and
\* returns Ok at once; otherwise it takes the lock, which it keeps until it
\* returns, removes the port's entry and signals the server found there.
InitBegin(i, level) ==
    /\ ipc[i] = "idle"
    /\ IF level # "Gateway"
       THEN /\ ires' = [ires EXCEPT ![i] = [NoCall EXCEPT !.op = "init", !.res = "NotGateway"]]
            /\ UNCHANGED <<mutex, shutdownTx, tasks, ipc, old, started>>
       ELSE /\ mutex = NoOne
            /\ mutex' = i
            /\ LET t == shutdownTx[port[i]]
               IN  /\ old' = [old EXCEPT ![i] = t]
                   /\ shutdownTx' = [shutdownTx EXCEPT ![port[i]] = 0]
                   /\ tasks' = IF t # 0 THEN Signal(tasks, t) ELSE tasks
                   /\ ipc' = [ipc EXCEPT ![i] = IF t # 0 THEN "init_await" ELSE "init_bind"]
            /\ ires' = [ires EXCEPT ![i] = NoCall]
            /\ started' = [started EXCEPT ![i] = 0]
    /\ UNCHANGED <<port, store>>

InitAwait(i) ==
    /\ ipc[i] = "init_await"
    /\ InitJoined(old[i])
    /\ ipc' = [ipc EXCEPT ![i] = "init_bind"]
    /\ UNCHANGED <<port, mutex, shutdownTx, tasks, old, started, ires, store>>

\* serv_addr.parse(), Server::try_bind, tokio::spawn and the insert.
\*   parses  serv_addr is an IP address
\*   free    try_bind gets (serv_addr, port).  The map is keyed by the port
\*           alone, so a server of this process on the same port and another
\*           address does not make the bind fail: free is any of the two,
\*           whatever the tasks are doing.
InitBind(i, parses, free) ==
    /\ ipc[i] = "init_bind"
    /\ IF ~parses \/ ~free
       THEN /\ ires' = [ires EXCEPT ![i] = [NoCall EXCEPT !.op = "init", !.res = "Conflict"]]
            /\ ipc' = [ipc EXCEPT ![i] = "init_done"]
            /\ UNCHANGED <<shutdownTx, tasks, started>>
       ELSE /\ \E t \in TaskIds :
                /\ tasks[t].state = "none"
                /\ \A x \in TaskIds : x < t => tasks[x].state # "none"
                /\ tasks' = [tasks EXCEPT ![t] = [port |-> port[i], state |-> "running", owner |-> i]]
                /\ shutdownTx' = [shutdownTx EXCEPT ![port[i]] = t]
                /\ started' = [started EXCEPT ![i] = t]
            /\ ipc' = [ipc EXCEPT ![i] = "init_cache"]
            /\ UNCHANGED ires
    /\ UNCHANGED <<port, mutex, old, store>>

\* The cache part of init: clean_status, then Good for every named backend.
InitSeed(i, g, rules, failAt) ==
    /\ ipc[i] = "init_cache"
    /\ failAt <= Len(Named(rules)) + 2
    /\ LET o == SeedOutcome(store, g, rules, failAt)
       IN  /\ store' = o.store
           /\ ires' = [ires EXCEPT ![i] =
                         [op |-> "init", res |-> IF o.ok THEN "Ok" ELSE "CacheErr",
                          gw |-> g, named |-> Range(Named(rules))]]
    /\ ipc' = [ipc EXCEPT ![i] = "init_done"]
    /\ UNCHANGED <<port, mutex, shutdownTx, tasks, old, started>>

\* destroy up to the removal of the entry.
DestroyBegin(i) ==
    /\ ipc[i] = "idle"
    /\ mutex = NoOne
    /\ mutex' = i
    /\ LET t == shutdownTx[port[i]]
       IN  /\ old' = [old EXCEPT ![i] = t]
           /\ shutdownTx' = [shutdownTx EXCEPT ![port[i]] = 0]
           /\ tasks' = IF t # 0 THEN Signal(tasks, t) ELSE tasks
           /\ ipc' = [ipc EXCEPT ![i] = IF t # 0 THEN "destroy_await" ELSE "destroy_done"]
    /\ ires' = [ires EXCEPT ![i] = [NoCall EXCEPT !.op = "destroy", !.res = "Ok"]]
    /\ UNCHANGED <<port, started, store>>

DestroyAwait(i) ==
    /\ ipc[i] = "destroy_await"
    /\ DestroyJoined(old[i])
    /\ ipc' = [ipc EXCEPT ![i] = "destroy_done"]
    /\ UNCHANGED <<port, mutex, shutdownTx, tasks, old, started, ires, store>>

\* init or destroy returns: the guard on SHUTDOWN_TX is dropped.
Return(i) ==
    /\ ipc[i] \in {"init_done", "destroy_done"}
    /\ mutex' = NoOne
    /\ ipc' = [ipc EXCEPT ![i] = "idle"]
    /\ old' = [old EXCEPT ![i] = 0]
    /\ ires' = [ires EXCEPT ![i] = NoCall]
    /\ started' = [started EXCEPT ![i] = 0]
    /\ UNCHANGED <<port, shutdownTx, tasks, store>>

\* The serve task: a signalled server finishes its connections and ends.
ServeStop(t) ==
    /\ tasks[t].state = "signalled"
    /\ tasks' = [tasks EXCEPT ![t].state = "done"]
    /\ UNCHANGED <<port, mutex, shutdownTx, ipc, old, started, ires, store>>

\* The serve task ends on its own, with a hyper error.
ServeFail(t) ==
    /\ tasks[t].state = "running"
    /\ tasks' = [tasks EXCEPT ![t].state = "done"]
    /\ UNCHANGED <<port, mutex, shutdownTx, ipc, old, started, ires, store>>

(***************************************************************************)
(* http_client: the default client.                                        *)
(***************************************************************************)
Threads == {"t1", "t2"}

NoReq == [kind |-> "none"]
NoRaw == [kind |-> "none"]

\* No request is being observed: the slots for the last calls are free.
Quiet == lastReq = NoReq /\ lastRaw = NoRaw

\* `DEFAULT_CLIENT.set(..)`: OnceLock::set stores the value only while the
\* cell is empty; otherwise the value is handed back and dropped.
OnceSet_Overwrite(cell, v) == v

OnceSet(cell, v) == IF cell = 0 THEN v ELSE cell

\* init, `if DEFAULT_CLIENT.get().is_none()`.
ClientInitCheck(t) ==
    /\ cpc[t] = "idle"
    /\ Quiet
    /\ cpc' = [cpc EXCEPT ![t] = IF defaultClient = 0 THEN "build" ELSE "ret"]
    /\ got' = [got EXCEPT ![t] = 0]
    /\ UNCHANGED <<defaultClient, built, made, lastReq, lastRaw>>

\* init, `do_init(false)?`: a new client; do_init has no Err path.
ClientInitBuild(t) ==
    /\ cpc[t] = "build"
    /\ built' = built + 1
    /\ made' = [made EXCEPT ![t] = built + 1]
    /\ cpc' = [cpc EXCEPT ![t] = "set"]
    /\ UNCHANGED <<defaultClient, got, lastReq, lastRaw>>

\* init, `let _ = DEFAULT_CLIENT.set(..)`.
ClientInitSet(t) ==
    /\ cpc[t] = "set"
    /\ defaultClient' = OnceSet(defaultClient, made[t])
    /\ made' = [made EXCEPT ![t] = 0]
    /\ cpc' = [cpc EXCEPT ![t] = "ret"]
    /\ UNCHANGED <<built, got, lastReq, lastRaw>>

\* init, `Ok(default_client())`.
ClientInitReturn(t) ==
    /\ cpc[t] = "ret"
    /\ got' = [got EXCEPT ![t] = defaultClient]
    /\ cpc' = [cpc EXCEPT ![t] = "idle"]
    /\ UNCHANGED <<defaultClient, built, made, lastReq, lastRaw>>

(***************************************************************************)
(* http_client: raw_request.  Strings are sequences of pieces.             *)
(***************************************************************************)
DEFAULT_TIMEOUT_MS == 5000

\* Option<u64>
NoMs == [some |-> FALSE, ms |-> 0]
SomeMs(n) == [some |-> TRUE, ms |-> n]
TimeoutOpts == {NoMs, SomeMs(5), SomeMs(20000)}

\* What the transport does with a request and after how many milliseconds:
\* it answers (status, body) or it fails.
Transports ==
    {[kind |-> "response", at |-> d, status |-> 200, body |-> "data"] : d \in {1, 5, 5000, 30000}}
    \cup {[kind |-> "response", at |-> 1, status |-> 504, body |-> "data"]}
    \cup {[kind |-> "fail", at |-> d, status |-> 0, body |-> "-"] : d \in {1, 5000, 30000}}

\* Who wins when the transport completes in the very poll the timer fires.
Races == {"io", "timer"}

RawInputs ==
    [client : BOOLEAN, hdrAscii : BOOLEAN, urlOk : BOOLEAN,
     timeout_ms : TimeoutOpts, tr : Transports]

Failed(code) == [ok |-> FALSE, status |-> 0, body |-> "-", code |-> code]
Answered(status, body) == [ok |-> TRUE, status |-> status, body |-> body, code |-> "-"]

\* `timeout_ms.unwrap_or(DEFAULT_TIMEOUT_MS)`
EffectiveTimeout(t) == IF t.some THEN t.ms ELSE DEFAULT_TIMEOUT_MS

\* `timeout(Duration::from_millis(timeout_ms), req).await` is Err(Elapsed).
Elapsed(tr, t, race) ==
    \/ tr.at > EffectiveTimeout(t)
    \/ tr.at = EffectiveTimeout(t) /\ race = "timer"

\* The outcome of the transport arm: `response.map_err(.. custom("502", ..))`.
TransportResult_Passes502(tr) ==
    IF tr.kind = "fail" THEN Answered(502, "empty") ELSE Answered(tr.status, tr.body)

TransportResult(tr) ==
    IF tr.kind = "fail" THEN Failed("502") ELSE Answered(tr.status, tr.body)

\* The outcome of the timer arm: a response built with GATEWAY_TIMEOUT and
\* Body::empty().
TimeoutResult_Fails == Failed("504")

TimeoutResult == Answered(504, "empty")

\* raw_request: the headers are copied first (a value that to_str() rejects
\* is bad_request), then the request is built (internal_error), then sent
\* under the deadline.
RawRequest(in, race) ==
    IF ~in.hdrAscii THEN Failed("400")
    ELSE IF ~in.urlOk THEN Failed("500")
    ELSE IF Elapsed(in.tr, in.timeout_ms, race) THEN TimeoutResult
    ELSE TransportResult(in.tr)

\* A direct call of raw_request.  Without a client it takes init()'s, which
\* sets the default client if there is none yet.
RawCall(in, race) ==
    /\ \A t \in Threads : cpc[t] = "idle"
    /\ Quiet
    /\ race = "timer" => in.tr.at = EffectiveTimeout(in.timeout_ms)
    /\ LET sends == in.hdrAscii /\ in.urlOk
           inits == sends /\ ~in.client /\ defaultClient = 0
       IN  /\ defaultClient' = IF inits THEN OnceSet(defaultClient, built + 1)
                               ELSE defaultClient
           /\ built' = IF inits THEN built + 1 ELSE built
           /\ lastRaw' = [kind |-> "raw", in |-> in, sent |-> sends,
                          elapsed |-> sends /\ Elapsed(in.tr, in.timeout_ms, race),
                          res |-> RawRequest(in, race)]
    /\ UNCHANGED <<cpc, made, got, lastReq>>

(***************************************************************************)
(* request and do_request.  Strings are sequences of tokens, "" is <<>>.   *)
(***************************************************************************)
NoStr == [some |-> FALSE, v |-> <<>>]
SomeStr(v) == [some |-> TRUE, v |-> v]

\* Option<String> namespace: unset, the empty string, or a name.
Namespaces == {NoStr, SomeStr(<<>>), SomeStr(<<"ns">>)}

\* Option<SgProtocol>
Protocols == {"None", "Http", "Https"}

BackendPorts == {0, 80, 443, 8080}

\* The chosen backend, as far as request reads it.
BackendRefs ==
    [name_or_host : {<<"svc">>}, namespace : Namespaces, port : BackendPorts,
     protocol : Protocols, timeout_ms : {NoMs, SomeMs(5)}]

NoRef ==
    [some |-> FALSE,
     b |-> [name_or_host |-> <<>>, namespace |-> NoStr, port |-> 0,
            protocol |-> "None", timeout_ms |-> NoMs]]
SomeRef(b) == [some |-> TRUE, b |-> b]

\* The request's Uri: what to_string() prints before the path and query, and
\* path_and_query() (empty when there is none, as in authority form).
Uris ==
    {[origin |-> <<>>, pq |-> <<"/get?foo=bar">>],
     [origin |-> <<"http", "://", "gw">>, pq |-> <<"/">>],
     [origin |-> <<"gw", ":", "8", "0">>, pq |-> <<>>]}

UriString(uri) == uri.origin \o uri.pq

DigitChars == <<"0", "1", "2", "3", "4", "5", "6", "7", "8", "9">>

\* Display of an unsigned integer.
RECURSIVE Digits(_)
Digits(n) ==
    IF n < 10 THEN <<DigitChars[n + 1]>>
    ELSE Digits(n \div 10) \o <<DigitChars[(n % 10) + 1]>>

\* `backend.protocol.as_ref().unwrap_or(&SgProtocol::Http)`
Scheme(b) == IF b.protocol = "None" THEN "Http" ELSE b.protocol

\* Display of SgProtocol.
SchemeStr(scheme) == IF scheme = "Https" THEN <<"https">> ELSE <<"http">>

\* `format!("{}{}", name_or_host, namespace.map(|n| format!(".{n}")).unwrap_or(""))`
HostPart(b) ==
    b.name_or_host \o (IF b.namespace.some THEN <<".">> \o b.namespace.v ELSE <<>>)

PortPart_AnyDefault(b) ==
    IF b.port \in {0, 80, 443} THEN <<>> ELSE <<":">> \o Digits(b.port)

PortPart(b) ==
    IF \/ (b.port = 0 \/ b.port = 80) /\ Scheme(b) = "Http"
       \/ (b.port = 0 \/ b.port = 443) /\ Scheme(b) = "Https"
    THEN <<>>
    ELSE <<":">> \o Digits(b.port)

\* `format!("{}://{}{}{}", scheme, host, port, path_and_query or "")`
Url(b, uri) == SchemeStr(Scheme(b)) \o <<"://">> \o HostPart(b) \o PortPart(b) \o uri.pq

\* The response slot of the context.
NoCtxResp == [set |-> FALSE, marked |-> FALSE, status |-> 0, body |-> "-", code |-> "-"]

\* ctx.resp(status, headers, body): a normal response.
CtxResp(status, body) ==
    [set |-> TRUE, marked |-> FALSE, status |-> status, body |-> body, code |-> "-"]

\* ctx.resp_from_error(e): a response marked as an error.
CtxRespFromError(code) ==
    [set |-> TRUE, marked |-> TRUE, status |-> 0, body |-> "-", code |-> code]

\* What the transport does with a forwarded request; no outcome falls on a
\* deadline.
ReqTransports ==
    {[kind |-> "response", at |-> 1, status |-> 200, body |-> "data"],
     [kind |-> "fail", at |-> 1, status |-> 0, body |-> "-"],
     [kind |-> "response", at |-> 30000, status |-> 200, body |-> "data"]}

\* The context on entry: the request body is there, no response yet.
NewCtx(chose) == [body |-> "body", resp |-> NoCtxResp, chose |-> chose, calls |-> <<>>]

RawOf(url, buildable, timeout_ms, hdrAscii, tr) ==
    RawRequest([client |-> TRUE, hdrAscii |-> hdrAscii, urlOk |-> buildable,
                timeout_ms |-> timeout_ms, tr |-> tr], "io")

Called(ctx, url, timeout_ms, res) ==
    Append(ctx.calls, [url |-> url, timeout_ms |-> timeout_ms, body |-> ctx.body, res |-> res])

DoRequest_Propagates(ctx, url, buildable, timeout_ms, hdrAscii, tr) ==
    LET res == RawOf(url, buildable, timeout_ms, hdrAscii, tr)
    IN  [ok |-> res.ok,
         ctx |-> [ctx EXCEPT !.body = "taken",
                             !.resp = IF res.ok THEN CtxResp(res.status, res.body) ELSE @,
                             !.calls = Called(ctx, url, timeout_ms, res)]]

\* do_request: the body is taken out of the request, raw_request is awaited
\* with the caller's client, and either arm of the match yields a context.
DoRequest(ctx, url, buildable, timeout_ms, hdrAscii, tr) ==
    LET res == RawOf(url, buildable, timeout_ms, hdrAscii, tr)
    IN  [ok |-> TRUE,
         ctx |-> [ctx EXCEPT !.body = "taken",
                             !.resp = IF res.ok THEN CtxResp(res.status, res.body)
                                      ELSE CtxRespFromError(res.code),
                             !.calls = Called(ctx, url, timeout_ms, res)]]

RequestInputs ==
    [redirect : BOOLEAN, backend : {NoRef} \cup {SomeRef(b) : b \in BackendRefs},
     rule_timeout_ms : {NoMs, SomeMs(20000)}, uri : Uris, hdrAscii : BOOLEAN,
     hostOk : BOOLEAN, tr1 : ReqTransports, tr2 : ReqTransports]

\* The inputs request does not read are held at one value.
Canonical(in) ==
    /\ ~in.redirect => in.tr1 = [kind |-> "response", at |-> 1, status |-> 200, body |-> "data"]
    /\ ~in.backend.some =>
          /\ in.hostOk
          /\ in.tr2 = [kind |-> "response", at |-> 1, status |-> 200, body |-> "data"]

\* `if let Some(timeout_ms) = backend.timeout_ms { Some(timeout_ms) } else { rule_timeout_ms }`
BackendTimeout(b, rule_timeout_ms) ==
    IF b.timeout_ms.some THEN b.timeout_ms ELSE rule_timeout_ms

RequestResult_RedirectOnly(in) ==
    LET c0 == NewCtx(in.backend)
    IN  IF in.redirect
        THEN DoRequest(c0, UriString(in.uri), TRUE, in.rule_timeout_ms, in.hdrAscii, in.tr1)
        ELSE IF in.backend.some
        THEN DoRequest(c0, Url(in.backend.b, in.uri), in.hostOk,
                       BackendTimeout(in.backend.b, in.rule_timeout_ms),
                       in.hdrAscii, in.tr2)
        ELSE [ok |-> TRUE, ctx |-> c0]

\* request: the redirect call to the request's own uri, then the call to the
\* chosen backend; `?` after either returns its error.
RequestResult(in) ==
    LET c0 == NewCtx(in.backend)
        r1 == IF in.redirect
              THEN DoRequest(c0, UriString(in.uri), TRUE, in.rule_timeout_ms,
                             in.hdrAscii, in.tr1)
              ELSE [ok |-> TRUE, ctx |-> c0]
    IN  IF ~r1.ok THEN r1
        ELSE IF in.backend.some
        THEN DoRequest(r1.ctx, Url(in.backend.b, in.uri), in.hostOk,
                       BackendTimeout(in.backend.b, in.rule_timeout_ms),
                       in.hdrAscii, in.tr2)
        ELSE r1

Request(in) ==
    /\ \A t \in Threads : cpc[t] = "idle"
    /\ Quiet
    /\ lastReq' = [kind |-> "request", in |-> in, ret |-> RequestResult(in)]
    /\ UNCHANGED <<defaultClient, built, cpc, made, got, lastRaw>>

\* The caller is done with the result of the last call.
Forget ==
    /\ ~Quiet
    /\ lastReq' = NoReq
    /\ lastRaw' = NoRaw
    /\ UNCHANGED <<defaultClient, built, cpc, made, got>>

\* The client before any call of init.
ClientIdle ==
    /\ defaultClient = 0
    /\ built = 0
    /\ cpc = [t \in Threads |-> "idle"]
    /\ made = [t \in Threads |-> 0]
    /\ got = [t \in Threads |-> 0]
    /\ lastReq = NoReq
    /\ lastRaw = NoRaw

\* The life-cycle variables of a process in which no filter was initialised.
ServerIdle ==
    /\ port = [i \in Insts |-> 8110]
    /\ mutex = NoOne
    /\ shutdownTx = [p \in Ports |-> 0]
    /\ tasks = [t \in TaskIds |-> [port |-> 0, state |-> "none", owner |-> NoOne]]
    /\ ipc = [i \in Insts |-> "idle"]
    /\ old = [i \in Insts |-> 0]
    /\ started = [i \in Insts |-> 0]
    /\ ires = [i \in Insts |-> NoCall]

\* No concurrent call of resp_filter, and nothing remembered for them.
NoBase ==
    [store |-> [g \in StatusGateways |-> [b \in Backends |-> NoStatus]],
     serverErr |-> [b \in Backends |-> <<>>]]

ConcIdle ==
    /\ serverErrLock = NoOne
    /\ rf = [q \in Calls |-> NoWork]
    /\ base = NoBase

\* The watcher's variables before init is called.
WatchIdle ==
    /\ trig = {}
    /\ conf = GwNames
    /\ loadRes = "none"
    /\ wpc = "off"
    /\ scanq = <<>>
    /\ lru = <<>>
    /\ last = NoTrigger
    /\ applied = [u \in Uniques |-> 0]
    /\ since = [u \in Uniques |-> {}]

\* The status filter's variables in a process that has handled no response.
StatusIdle ==
    /\ store = [g \in StatusGateways |-> [b \in Backends |-> NoStatus]]
    /\ now = 0
    /\ unhealthy_threshold = DefaultThreshold
    /\ interval = DefaultInterval
    /\ serverErr = [b \in Backends |-> <<>>]
    /\ run = [b \in Backends |-> 0]
    /\ fromAbsent = [b \in Backends |-> FALSE]
    /\ lastResp = NoResp

InitWatch ==
    /\ StatusIdle
    /\ ServerIdle
    /\ ClientIdle
    /\ ConcIdle
    /\ trig = {}
    /\ conf \in SUBSET GwNames
    /\ loadRes = "none"
    /\ wpc = "off"
    /\ scanq = <<>>
    /\ lru = <<>>
    /\ last = NoTrigger
    /\ applied = [u \in Uniques |-> 0]
    /\ since = [u \in Uniques |-> {}]

NextWatch ==
    \/ \E k \in Keys : PutTrigger(k)
    \/ \E k \in Keys : DelTrigger(k)
    \/ \E g \in GwNames : SetGateway(g)
    \/ \E g \in GwNames : DelGateway(g)
    \/ \E f \in {"none", "cache"} : LoaderInit(f)
    \/ \E f \in PassFaults, o \in Orders(trig) : PassStart(f, o)
    \/ \E f \in HandleFaults \cup {"index"} : HandleTrigger(f)
    \/ PassEnd

SpecWatch == InitWatch /\ [][NextWatch]_vars

\* The watcher when every trigger is a gateway trigger of a gateway that has
\* a config field from the start and keeps it: a key is then one unique.
ReloadKeys == {<<u, "gateway", g>> : u \in Uniques, g \in GwNames}

InitReload == InitWatch /\ conf = GwNames

NextReload ==
    \/ \E k \in ReloadKeys : PutTrigger(k)
    \/ \E k \in ReloadKeys : DelTrigger(k)
    \/ \E f \in {"none", "cache"} : LoaderInit(f)
    \/ \E f \in PassFaults, o \in Orders(trig) : PassStart(f, o)
    \/ \E f \in HandleFaults \cup {"index"} : HandleTrigger(f)
    \/ PassEnd

SpecReload == InitReload /\ [][NextReload]_vars

\* The status filter of a process that has handled no response yet, with any
\* options; every gateway's init has seeded Good for the backends its rules
\* name, and the hash has no field for the others.
InitStatus ==
    /\ WatchIdle
    /\ ServerIdle
    /\ ClientIdle
    /\ now = 0
    /\ unhealthy_threshold \in 0 .. MaxThreshold
    /\ interval \in 0 .. MaxInterval
    /\ serverErr = [b \in Backends |-> <<>>]
    /\ store \in [StatusGateways -> [Backends -> {NoStatus, "Good"}]]
    /\ \A g \in StatusGateways, b \in Backends \ RespBackends : store[g][b] = NoStatus
    /\ run = [b \in Backends |-> 0]
    /\ fromAbsent = [b \in Backends |-> FALSE]
    /\ lastResp = NoResp
    /\ ConcIdle

NextStatus ==
    \/ \E g \in StatusGateways, b \in RespBackends, f \in {"none", "update"} :
          RespError(g, b, f) /\ UNCHANGED <<watchVars, serverVars, clientVars, concVars>>
    \/ \E g \in StatusGateways, b \in RespBackends, f \in {"none", "get", "update"} :
          RespSuccess(g, b, f) /\ UNCHANGED <<watchVars, serverVars, clientVars, concVars>>
    \/ \E g \in StatusGateways : RespNoBackend(g) /\ UNCHANGED <<store, watchVars, serverVars, clientVars, concVars>>
    \/ Tick /\ UNCHANGED <<store, watchVars, serverVars, clientVars, concVars>>

SpecStatus == InitStatus /\ [][NextStatus]_vars

\* Filter instances with any ports, no status server running yet, and status
\* hashes that may hold fields from an earlier run.
InitServer ==
    /\ WatchIdle
    /\ ClientIdle
    /\ now = 0
    /\ unhealthy_threshold = DefaultThreshold
    /\ interval = DefaultInterval
    /\ serverErr = [b \in Backends |-> <<>>]
    /\ run = [b \in Backends |-> 0]
    /\ fromAbsent = [b \in Backends |-> FALSE]
    /\ lastResp = NoResp
    /\ \E left \in {NoStatus, "Major"} :
          store = [g \in StatusGateways |-> [b \in Backends |-> left]]
    /\ port \in [Insts -> Ports]
    /\ port["f1"] = 8110
    /\ mutex = NoOne
    /\ shutdownTx = [p \in Ports |-> 0]
    /\ tasks = [t \in TaskIds |-> [port |-> 0, state |-> "none", owner |-> NoOne]]
    /\ ipc = [i \in Insts |-> "idle"]
    /\ old = [i \in Insts |-> 0]
    /\ started = [i \in Insts |-> 0]
    /\ ires = [i \in Insts |-> NoCall]
    /\ ConcIdle

NextServer ==
    \/ \E i \in Insts, level \in {"Gateway", "Route"} :
          InitBegin(i, level) /\ UNCHANGED <<watchVars, respVars, clientVars, concVars>>
    \/ \E i \in Insts : InitAwait(i) /\ UNCHANGED <<watchVars, respVars, clientVars, concVars>>
    \/ \E i \in Insts, parses \in BOOLEAN, free \in BOOLEAN :
          InitBind(i, parses, free) /\ UNCHANGED <<watchVars, respVars, clientVars, concVars>>
    \/ \E i \in Insts, g \in SeedGateways, rules \in RuleSets,
          failAt \in SeedCalls :
          InitSeed(i, g, rules, failAt) /\ UNCHANGED <<watchVars, respVars, clientVars, concVars>>
    \/ \E i \in Insts : DestroyBegin(i) /\ UNCHANGED <<watchVars, respVars, clientVars, concVars>>
    \/ \E i \in Insts : DestroyAwait(i) /\ UNCHANGED <<watchVars, respVars, clientVars, concVars>>
    \/ \E i \in Insts : Return(i) /\ UNCHANGED <<watchVars, respVars, clientVars, concVars>>
    \/ \E t \in TaskIds : ServeStop(t) /\ UNCHANGED <<watchVars, respVars, clientVars, concVars>>
    \/ \E t \in TaskIds : ServeFail(t) /\ UNCHANGED <<watchVars, respVars, clientVars, concVars>>

SpecServer == InitServer /\ [][NextServer]_vars

\* The outbound client: threads calling init, and callers of raw_request.
InitClient == WatchIdle /\ StatusIdle /\ ServerIdle /\ ClientIdle /\ ConcIdle

NextClient ==
    \/ \E t \in Threads : ClientInitCheck(t) /\ UNCHANGED <<watchVars, respVars, store, serverVars, concVars>>
    \/ \E t \in Threads : ClientInitBuild(t) /\ UNCHANGED <<watchVars, respVars, store, serverVars, concVars>>
    \/ \E t \in Threads : ClientInitSet(t) /\ UNCHANGED <<watchVars, respVars, store, serverVars, concVars>>
    \/ \E t \in Threads : ClientInitReturn(t) /\ UNCHANGED <<watchVars, respVars, store, serverVars, concVars>>
    \/ \E in \in RawInputs, race \in Races :
          RawCall(in, race) /\ UNCHANGED <<watchVars, respVars, store, serverVars, concVars>>
    \/ /\ Quiet
       /\ \E in \in {i \in RequestInputs : Canonical(i)} :
             Request(in) /\ UNCHANGED <<watchVars, respVars, store, serverVars, concVars>>
    \/ Forget /\ UNCHANGED <<watchVars, respVars, store, serverVars, concVars>>

SpecClient == InitClient /\ [][NextClient]_vars

\* Concurrent responses for one backend: the options are any of a few, the
\* hashes hold what init or earlier responses left, and the backend has no
\* entry, an unexpired one or an expired one.
InitConc ==
    /\ WatchIdle
    /\ ServerIdle
    /\ ClientIdle
    /\ now = 0
    /\ unhealthy_threshold \in ConcThresholds
    /\ interval \in ConcIntervals
    /\ \E e \in {<<>>, <<1, 1>>, <<1, 0>>} :
          serverErr = [b \in Backends |-> IF b \in RespBackends THEN e ELSE <<>>]
    /\ \E left \in {NoStatus, "Good", "Major"} :
          store = [g \in StatusGateways |->
                      [b \in Backends |-> IF b \in RespBackends THEN left ELSE NoStatus]]
    /\ run = [b \in Backends |-> 0]
    /\ fromAbsent = [b \in Backends |-> FALSE]
    /\ lastResp = NoResp
    /\ serverErrLock = NoOne
    /\ rf = [q \in Calls |-> NoWork]
    /\ base = [store |-> store, serverErr |-> serverErr]

ConcRest == <<now, unhealthy_threshold, interval, run, fromAbsent, lastResp,
              watchVars, serverVars, clientVars>>

NextConc ==
    \/ \E q \in Calls, g \in StatusGateways, b \in RespBackends :
          RfLock(q, g, b) /\ UNCHANGED ConcRest
    \/ \E q \in Calls, ok \in BOOLEAN : RfWrite(q, ok) /\ UNCHANGED ConcRest
    \/ \E q \in Calls : RfInsert(q) /\ UNCHANGED ConcRest
    \/ \E q \in Calls, g \in StatusGateways, b \in RespBackends, ok \in BOOLEAN :
          RfGet(q, g, b, ok) /\ UNCHANGED ConcRest
    \/ \E q \in Calls, ok \in BOOLEAN : RfPut(q, ok) /\ UNCHANGED ConcRest

SpecConc == InitConc /\ [][NextConc]_vars

(***************************************************************************)
(* Claims about the configuration watcher.                                 *)
(***************************************************************************)
\* The step handles a trigger of unique u and makes a runtime call for it.
Applies(u) ==
    /\ last' # last
    /\ last'.calls # <<>>
    /\ last'.key[1] = u

\* C1, as stated: for all trigger keys that carry the same unique, at most
\* one effect-applying dispatch ever happens in the process.
C1_AtMostOneEffectPerUnique == \A u \in Uniques : applied[u] <= 1

\* C1, amended: a unique for which an effect was applied gets a second one
\* only after the LRU has dropped it, that is after at least LruCap other
\* distinct uniques were put since it was last seen.
C1_ReappliedOnlyAfterEviction ==
    [][\A u \in Uniques :
          (Applies(u) /\ applied[u] >= 1) =>
              (u \notin Range(lru) /\ Cardinality(since[u]) >= LruCap)]_vars

\* C1, witness: a unique was applied, dropped from the LRU, seen again and
\* applied a second time.
C1_Witness ==
    \E u \in Uniques :
        /\ applied[u] = 2
        /\ last.key # <<>> /\ last.key[1] = u /\ last.calls # <<>>

\* C9, as stated: once started, the watch loop never exits, whatever the
\* trigger keys hold and whatever the cache and runtime calls return.
C9_WatchLoopNeverExits == loadRes = "Ok" => wpc # "dead"

\* C10, as stated: a cache failure while a trigger is handled abandons only
\* that pass: the loop lives on and the trigger is still unseen for the
\* debounce, so that the next tick handles it again.
C10_InterruptedTriggerRetried ==
    last.fault \in CacheFaults =>
        (wpc # "dead" /\ last.key[1] \notin Range(lru))

\* The step takes the next trigger of the scan past the debounce: it is not
\* skipped.
Handles(k) ==
    /\ last' # last
    /\ last'.key = k
    /\ ~last'.skipped

\* The step takes a trigger from the scan, skipped or not.
Visits == last' # last /\ last'.key # <<>>

\* The runtime calls of a gateway trigger whose gateway is present.
Restart(g) == <<<<"shutdown", g>>, <<"do_startup", g>>>>

\* What C11 says of the calls: shutdown first, do_startup after it and only
\* if no step before it failed, both when none fails; triggers in scan order.
RestartInOrder ==
    /\ Visits => (scanq # <<>> /\ last'.key = Head(scanq))
    /\ \A k \in WellFormedKeys :
          (Handles(k) /\ k[2] = "gateway" /\ k[3] \in conf) =>
              /\ \E n \in 0 .. 2 : last'.calls = SubSeq(Restart(k[3]), 1, n)
              /\ last'.fault = "none" => last'.calls = Restart(k[3])
              /\ last'.fault = "do_startup" => last'.calls = Restart(k[3])
              /\ last'.fault = "shutdown" => last'.calls = SubSeq(Restart(k[3]), 1, 1)

\* C11, as stated: a gateway trigger of a present gateway gets shutdown and
\* then do_startup, triggers take effect in scan order, and the same trigger
\* seen again in a later pass gets no second shutdown/do_startup.
C11_RestartOncePerTrigger ==
    [][/\ RestartInOrder
       /\ \A k \in ReloadKeys :
             (Handles(k) /\ last'.calls # <<>>) => applied[k[1]] = 0]_vars

\* C11, amended: as stated, but the same trigger seen again gets a second
\* shutdown/do_startup once the LRU has dropped its unique, that is after at
\* least LruCap other distinct uniques were put since it was last seen, and
\* never before.
C11_RestartAgainOnlyAfterEviction ==
    [][/\ RestartInOrder
       /\ \A k \in ReloadKeys :
             (Handles(k) /\ last'.calls # <<>> /\ applied[k[1]] >= 1) =>
                 (k[1] \notin Range(lru) /\ Cardinality(since[k[1]]) >= LruCap)]_vars

\* C11, witness: a gateway trigger went through shutdown and do_startup, and
\* a later pass that found its unique still in the LRU skipped it.
C11_Witness ==
    \E k \in ReloadKeys :
        /\ applied[k[1]] = 1
        /\ last.key = k /\ last.skipped
        /\ k[1] \in Range(lru)
        /\ wpc = "scan"

\* The runtime calls C12 allows for key k, the gateway being present or not.
Expected(k, present) ==
    IF present /\ k[2] = "httproute" THEN <<<<"route_init", k[3]>>>>
    ELSE IF ~present /\ k[2] = "gateway" THEN <<<<"shutdown", k[3]>>>>
    ELSE <<>>

\* C12: a trigger that passed the debounce, other than a gateway trigger of a
\* present gateway, gets the route re-init alone (gateway present, obj
\* httproute), shutdown alone (gateway absent, obj gateway) or no call at all
\* (every other obj); the call is made unless a step before it failed.
C12_DispatchOfOtherTriggers ==
    [][\A k \in WellFormedKeys :
          (Handles(k) /\ ~(k[2] = "gateway" /\ k[3] \in conf)) =>
              /\ last'.calls \in {<<>>, Expected(k, k[3] \in conf)}
              /\ last'.fault \in {"none"} \cup RuntimeOps =>
                    last'.calls = Expected(k, k[3] \in conf)]_vars

\* C12, witness: a route trigger of a present gateway was handled and the
\* route re-init was its only call.
C12_Witness ==
    /\ last.key # <<>> /\ ~last.skipped
    /\ Len(last.key) = 3 /\ last.key[2] = "httproute"
    /\ last.fault = "none"
    /\ last.calls = <<<<"route_init", last.key[3]>>>>

\* C18: when the gateway hash is empty, init returns NotFound (or the error
\* of the cache call that failed before the hash was read), never a
\* configuration, and the watch task is not spawned: no pass ever runs.
C18_EmptyHashNotFound ==
    /\ [][(loadRes = "none" /\ loadRes' # "none" /\ conf = {}) =>
             (loadRes' \in {"NotFound", "Err"} /\ wpc' = "off")]_vars
    /\ [](loadRes \in {"NotFound", "Err"} =>
             (wpc = "off" /\ scanq = <<>> /\ lru = <<>> /\ last = NoTrigger))

\* C18, witness: init has found the hash empty and returned NotFound.
C18_Witness == loadRes = "NotFound" /\ conf = {} /\ wpc = "off"

\* The step applies key k once more: its unique had an effect applied before.
AppliesAgain(k) ==
    /\ Handles(k)
    /\ last'.calls # <<>>
    /\ applied[k[1]] >= 1

\* C20, as stated: a key is applied a second time only after more than LruCap
\* other distinct uniques were put since its unique was last seen.
C20_ReappliedAfterMoreThanCap ==
    [][\A k \in ReloadKeys :
          AppliesAgain(k) => Cardinality(since[k[1]] \ {k[1]}) > LruCap]_vars

\* C20, amended: the LRU never holds more than LruCap uniques; a key is
\* applied a second time only when the LRU is full and has dropped the key's
\* unique, which takes LruCap other distinct uniques (LruCap, not more) put
\* since the unique was last seen, a skipped sighting included.  So with at
\* most LruCap distinct uniques among the keys nothing is applied twice.
C20_ReappliedAfterCapOthers ==
    /\ [](Len(lru) <= LruCap /\ Cardinality(Range(lru)) = Len(lru))
    /\ [][\A k \in ReloadKeys :
             AppliesAgain(k) =>
                 /\ Len(lru) = LruCap
                 /\ k[1] \notin Range(lru)
                 /\ Cardinality(since[k[1]] \ {k[1]}) >= LruCap]_vars

\* C20, witness: a unique was applied, then LruCap other uniques pushed it
\* out of the full LRU, and the pass that saw it again applied it again.
C20_Witness ==
    \E u \in Uniques :
        /\ applied[u] = 2
        /\ Len(lru) = LruCap /\ lru[1] = u
        /\ last.key # <<>> /\ last.key[1] = u /\ ~last.skipped
        /\ last.calls # <<>>

(***************************************************************************)
(* The response filter's claims, checked under SpecStatus.                 *)
(***************************************************************************)
\* The last response was an error for backend b that resp_filter handled
\* without a cache failure.
ErrorHandled(b) == lastResp.kind = "error" /\ lastResp.ok /\ lastResp.b = b

SuccessHandled == lastResp.kind = "success" /\ lastResp.ok

\* The status the gateway that handled the last response holds for b.
Stored(b) == GetStatus(store, lastResp.g, b)

\* The number of in-window errors after which the status is Major.
MajorFrom == (IF unhealthy_threshold = 0 THEN 1 ELSE unhealthy_threshold) + 1

C3_MinorThenMajorThenGood ==
    /\ \A b \in Backends :
          (ErrorHandled(b) /\ fromAbsent[b]) =>
              Stored(b) = (IF run[b] <= unhealthy_threshold THEN "Minor" ELSE "Major")
    /\ (SuccessHandled /\ lastResp.after.err /\ lastResp.after.abs) =>
              Stored(lastResp.b) = "Good"

\* C3, amended: from no entry and with the entry unexpired at every later
\* error, the k-th consecutive error that is handled without a cache failure
\* leaves Minor for k <= max(unhealthy_threshold, 1) and Major for every later
\* k, in the hash of the gateway it came through; a success that follows
\* through that same gateway, handled without a cache failure, leaves Good.
C3_MinorUpToThresholdThenMajor ==
    /\ \A b \in Backends :
          (ErrorHandled(b) /\ fromAbsent[b]) =>
              Stored(b) = (IF run[b] < MajorFrom THEN "Minor" ELSE "Major")
    /\ (SuccessHandled /\ lastResp.after.err /\ lastResp.after.abs
            /\ lastResp.after.g = lastResp.g) =>
              Stored(lastResp.b) = "Good"

C3_Witness ==
    /\ unhealthy_threshold = DefaultThreshold
    /\ SuccessHandled
    /\ lastResp.after.err /\ lastResp.after.abs /\ lastResp.after.g = lastResp.g
    /\ lastResp.pre = "Major"
    /\ lastResp.times = DefaultThreshold + 1
    /\ Stored(lastResp.b) = "Good"

C5_MinorWhileBelowThreshold ==
    \A b \in Backends :
        (/\ ErrorHandled(b)
         /\ run[b] >= 1 /\ run[b] < unhealthy_threshold
         /\ serverErr[b] # <<>>
         /\ Unexpired(serverErr[b], now)
         /\ serverErr[b][1] < unhealthy_threshold)
            => \E g \in StatusGateways : GetStatus(store, g, b) = "Minor"

\* The step handles an error response for backend b.
ErrorStep(b) ==
    /\ lastResp'.kind = "error"
    /\ lastResp'.b = b
    /\ lastResp' # lastResp \/ serverErr' # serverErr \/ store' # store

\* C19: an error response for a backend whose entry has expire <= now, the
\* boundary expire = now included, writes nothing to the store, whatever the
\* store holds, and leaves the entry (1, now + interval).
C19_ExpiredEntryResetsWithoutWrite ==
    [][\A b \in Backends :
          (ErrorStep(b) /\ serverErr[b] # <<>> /\ serverErr[b][2] <= now) =>
              /\ lastResp'.entry = "expired"
              /\ lastResp'.ok
              /\ store' = store
              /\ serverErr'[b] = <<1, now + interval>>]_vars

\* C19, witness: an error found the entry expired at the boundary (the entry
\* it leaves ends one interval after now); the store still says Good.
C19_Witness ==
    /\ ErrorHandled("a")
    /\ lastResp.entry = "expired"
    /\ interval = 1 /\ now >= 1
    /\ serverErr["a"] = <<1, now + interval>>
    /\ lastResp.pre = "Good"
    /\ Stored("a") = "Good"

(***************************************************************************)
(* The status server's claims, checked under SpecServer.                   *)
(***************************************************************************)
\* C6: when a gateway-level init has succeeded, the gateway's hash holds Good
\* for every backend named in its rules and no other field, whatever the hash
\* held before.
C6_InitSeedsExactlyNamedBackends ==
    \A i \in Insts :
        (ipc[i] = "init_done" /\ ires[i].res = "Ok") =>
            store[ires[i].gw] =
                [b \in Backends |-> IF b \in ires[i].named THEN "Good" ELSE NoStatus]

C6_Witness ==
    \E i \in Insts :
        /\ ipc[i] = "init_done" /\ ires[i].res = "Ok"
        /\ ires[i].named = {"a"}
        /\ store["gw2"]["b"] = "Major"
        /\ store[ires[i].gw] = [b \in Backends |-> IF b = "a" THEN "Good" ELSE NoStatus]

\* C7: when destroy returns, the map has no entry for the filter's port, the
\* serve task that was registered for it has ended, and no serve task of the
\* process holds the port.
C7_DestroyFreesPort ==
    \A i \in Insts :
        ipc[i] = "destroy_done" =>
            /\ shutdownTx[port[i]] = 0
            /\ old[i] # 0 => tasks[old[i]].state = "done"
            /\ ~PortBusy(port[i])

C7_Witness ==
    \E i \in Insts, j \in Insts :
        /\ i # j
        /\ ipc[i] = "destroy_done"
        /\ old[i] # 0 /\ tasks[old[i]].state = "done"
        /\ tasks[old[i]].port = port[i]
        /\ shutdownTx[port[i]] = 0

\* C8: at most one serve task per port is alive at any moment; an init that
\* found an entry for its port binds only after that entry's serve task has
\* ended; after the bind, and so when init has succeeded, the port's entry is
\* the server this init started.
C8_OneServerPerPort ==
    /\ \A p \in Ports : Cardinality({t \in TaskIds : tasks[t].port = p /\ Live(t)}) <= 1
    /\ \A i \in Insts :
          /\ (ipc[i] = "init_bind" /\ old[i] # 0) => tasks[old[i]].state = "done"
          /\ ipc[i] = "init_cache" => started[i] # 0
          /\ (ipc[i] = "init_done" /\ ires[i].res \in {"Ok", "CacheErr"}) => started[i] # 0
          /\ started[i] # 0 =>
                /\ shutdownTx[port[i]] = started[i]
                /\ tasks[started[i]].port = port[i]

C8_Witness ==
    \E i \in Insts :
        /\ ipc[i] = "init_done" /\ ires[i].res = "Ok"
        /\ old[i] # 0 /\ tasks[old[i]].state = "done"
        /\ started[i] # 0 /\ Live(started[i])
        /\ shutdownTx[port[i]] = started[i]

(***************************************************************************)
(* The outbound client's claims, checked under SpecClient.                 *)
(***************************************************************************)
\* C13: every call of init returns the one client DEFAULT_CLIENT holds, also
\* when first calls run concurrently and each builds a client of its own;
\* once set, DEFAULT_CLIENT is never replaced, and it is set when init reads
\* it to return.
C13_InitReturnsOneClient ==
    /\ [](\A t \in Threads : got[t] # 0 => got[t] = defaultClient)
    /\ [](\A t, u \in Threads : (got[t] # 0 /\ got[u] # 0) => got[t] = got[u])
    /\ [](\A t \in Threads : cpc[t] = "ret" => defaultClient # 0)
    /\ [][defaultClient # 0 => defaultClient' = defaultClient]_vars

\* C13, witness: two first calls raced, both built a client, and both
\* returned the same one.
C13_Witness ==
    /\ built = 2
    /\ \A t \in Threads : cpc[t] = "idle" /\ got[t] = defaultClient
    /\ defaultClient # 0

\* A call of request with a chosen backend has returned.
Forwarded == lastReq.kind = "request" /\ lastReq.in.backend.some

\* The url of the call to the chosen backend, the last call request makes.
BackendUrl == lastReq.ret.ctx.calls[Len(lastReq.ret.ctx.calls)].url

\* The decimal text of the ports in use.
PortText == [p \in BackendPorts |->
                CASE p = 0 -> <<"0">>
                  [] p = 80 -> <<"8", "0">>
                  [] p = 443 -> <<"4", "4", "3">>
                  [] p = 8080 -> <<"8", "0", "8", "0">>]

HasPort(url, p) ==
    \E i \in 1..Len(url) :
        /\ url[i] = ":"
        /\ i + Len(PortText[p]) <= Len(url)
        /\ SubSeq(url, i + 1, i + Len(PortText[p])) = PortText[p]

NoPort(url) == \A i \in 1..Len(url) : url[i] # ":"

DefaultPort(b) ==
    \/ b.port \in {0, 80} /\ b.protocol \in {"None", "Http"}
    \/ b.port \in {0, 443} /\ b.protocol = "Https"

\* C14: the url synthesised for the chosen backend has no port exactly when
\* the port is 0 or 80 over http (protocol http or unset) or 0 or 443 over
\* https; in every other case it contains ":<port>".
C14_PortOmittedIffDefault ==
    Forwarded =>
        LET b == lastReq.in.backend.b
        IN  /\ NoPort(BackendUrl) <=> DefaultPort(b)
            /\ ~DefaultPort(b) => HasPort(BackendUrl, b.port)

\* C14, witness: a backend on port 443 over http was forwarded to with
\* ":443" in the url.
C14_Witness ==
    /\ Forwarded
    /\ lastReq.in.backend.b.port = 443
    /\ lastReq.in.backend.b.protocol = "None"
    /\ HasPort(BackendUrl, 443)

\* The host part of a synthesised url: what stands between "://" and the
\* port or, without a port, the path and query.
HostOf(url, uri) ==
    LET rest == SubSeq(url, 3, Len(url) - Len(uri.pq))
        colons == {i \in 1..Len(rest) : rest[i] = ":"}
        first == CHOOSE i \in colons : \A j \in colons : i <= j
    IN  IF colons = {} THEN rest ELSE SubSeq(rest, 1, first - 1)

\* C15, as stated: a namespace that is unset or the empty string adds nothing
\* to the host part of the url, and a non-empty namespace n adds exactly ".n"
\* after name_or_host.
C15_EmptyNamespaceAddsNothing ==
    Forwarded =>
        LET b == lastReq.in.backend.b
            host == HostOf(BackendUrl, lastReq.in.uri)
        IN  IF ~b.namespace.some \/ b.namespace.v = <<>>
            THEN host = b.name_or_host
            ELSE host = b.name_or_host \o <<".">> \o b.namespace.v

\* C16: a call of raw_request whose transport has not completed by the
\* deadline (timeout_ms, 5000 ms when unset) returns Ok with status 504 and
\* an empty body; an error is BadRequest for a non-ASCII header value (before
\* the request is built), InternalError for an unbuildable request, or the
\* 502 error for a transport failure before the deadline, and nothing else.
C16_RawRequestOutcomes ==
    lastRaw.kind = "raw" =>
        LET in == lastRaw.in
            res == lastRaw.res
            deadline == IF in.timeout_ms.some THEN in.timeout_ms.ms ELSE 5000
        IN  /\ (in.hdrAscii /\ in.urlOk /\ in.tr.at > deadline) =>
                   (res.ok /\ res.status = 504 /\ res.body = "empty")
            /\ lastRaw.elapsed => (res.ok /\ res.status = 504 /\ res.body = "empty")
            /\ ~res.ok =>
                   \/ res.code = "400" /\ ~in.hdrAscii /\ ~lastRaw.sent
                   \/ res.code = "500" /\ in.hdrAscii /\ ~in.urlOk /\ ~lastRaw.sent
                   \/ /\ res.code = "502"
                      /\ lastRaw.sent
                      /\ in.tr.kind = "fail"
                      /\ in.tr.at <= deadline
            /\ ~in.hdrAscii => (~res.ok /\ res.code = "400")
            /\ (in.hdrAscii /\ in.urlOk /\ in.tr.at < deadline /\ in.tr.kind = "response") =>
                   (res.ok /\ res.status = in.tr.status /\ res.body = in.tr.body)

\* C16, witness: with no timeout given, a transport that would answer after
\* 30000 ms was cut off at 5000 ms with the synthetic 504.
C16_Witness ==
    /\ lastRaw.kind = "raw"
    /\ ~lastRaw.in.timeout_ms.some
    /\ lastRaw.in.tr.at = 30000
    /\ lastRaw.in.tr.kind = "response"
    /\ lastRaw.res = [ok |-> TRUE, status |-> 504, body |-> "empty", code |-> "-"]

\* C17: request always returns the context, never an error: it makes the
\* redirect call and the backend call whatever the first call's outcome, and
\* the context holds the outcome of the last call, an error as an
\* error-marked response, a response or the synthetic 504 as a normal one;
\* without a call the context's response is untouched.
C17_RequestReturnsContext ==
    lastReq.kind = "request" =>
        LET in == lastReq.in
            ret == lastReq.ret
            calls == ret.ctx.calls
            n == Len(calls)
        IN  /\ ret.ok
            /\ n = (IF in.redirect THEN 1 ELSE 0) + (IF in.backend.some THEN 1 ELSE 0)
            /\ ret.ctx.chose = in.backend
            /\ n = 0 => ret.ctx.resp = NoCtxResp
            /\ n > 0 =>
                  /\ ret.ctx.resp.set
                  /\ ret.ctx.resp.marked <=> ~calls[n].res.ok
                  /\ calls[n].res.ok =>
                        /\ ret.ctx.resp.status = calls[n].res.status
                        /\ ret.ctx.resp.body = calls[n].res.body
                  /\ ~calls[n].res.ok => ret.ctx.resp.code = calls[n].res.code
                  /\ ~in.hdrAscii => (ret.ctx.resp.marked /\ ret.ctx.resp.code = "400")
            /\ (in.backend.some /\ in.hdrAscii /\ in.hostOk) =>
                  /\ in.tr2.kind = "fail" =>
                        (ret.ctx.resp.marked /\ ret.ctx.resp.code = "502")
                  /\ in.tr2.at = 30000 =>
                        (~ret.ctx.resp.marked /\ ret.ctx.resp.status = 504)
            /\ (in.backend.some /\ in.hdrAscii /\ ~in.hostOk) =>
                  (ret.ctx.resp.marked /\ ret.ctx.resp.code = "500")

\* C17, witness: the redirect call failed on a header value, the backend
\* call was made all the same, and request returned the context with an
\* error-marked response.
C17_Witness ==
    /\ lastReq.kind = "request"
    /\ lastReq.in.redirect /\ lastReq.in.backend.some /\ ~lastReq.in.hdrAscii
    /\ Len(lastReq.ret.ctx.calls) = 2
    /\ lastReq.ret.ok
    /\ lastReq.ret.ctx.resp.marked

C23_FailedWriteLeavesCounter ==
    [][\A b \in Backends :
          (ErrorStep(b) /\ ~lastResp'.ok) =>
              /\ lastResp'.entry \in {"absent", "open"}
              /\ serverErr' = serverErr
              /\ store' = store]_vars

\* C23, witness: the write failed for an error that found an unexpired entry
\* counting two errors, and the entry still counts two.
C23_Witness ==
    /\ lastResp.kind = "error" /\ ~lastResp.ok /\ lastResp.b = "a"
    /\ lastResp.entry = "open"
    /\ lastResp.times = 2
    /\ serverErr["a"][1] = 2

\* The counter resp_filter consults and updates for backend b when the
\* response came through gateway g: the entry of SERVER_ERR under the
\* backend's name.
CounterFor(g, b) == serverErr[b]

\* C24, as stated: an error response for backend b that came through one
\* gateway changes neither the hash of another gateway g nor the counter used
\* for b's responses through g.
C24_GatewaysIsolated ==
    [][\A b \in Backends, g \in StatusGateways :
          (ErrorStep(b) /\ lastResp'.ok /\ lastResp'.g # g) =>
              /\ store'[g] = store[g]
              /\ CounterFor(g, b)' = CounterFor(g, b)]_vars

(***************************************************************************)
(* Further claims about the status server, checked under SpecServer.       *)
(***************************************************************************)
\* C27: an init that fails with Conflict (serv_addr does not parse, or the
\* bind fails) has not touched the status hash and has inserted nothing in
\* the port map; the server it found registered for its port has been
\* signalled, awaited and removed, so that no status server runs on the port
\* and the map has no entry for it, also once the init has returned.
C27_ConflictLeavesPortEmpty ==
    /\ [](\A i \in Insts :
            ires[i].res = "Conflict" =>
                /\ ipc[i] = "init_done"
                /\ started[i] = 0
                /\ shutdownTx[port[i]] = 0
                /\ old[i] # 0 => tasks[old[i]].state = "done"
                /\ ~PortBusy(port[i]))
    /\ [][\A i \in Insts :
            (ipc'[i] \in {"init_await", "init_bind"} \/ ires'[i].res = "Conflict") =>
                store' = store]_vars
    /\ [][\A i \in Insts :
            (ires[i].res = "Conflict" /\ ipc'[i] = "idle") =>
                /\ shutdownTx'[port[i]] = 0
                /\ \A t \in TaskIds : tasks'[t].port = port[i] => tasks'[t].state \in {"none", "done"}]_vars

\* C27, witness: an init found a server registered for its port, stopped it,
\* and then failed with Conflict.
C27_Witness ==
    \E i \in Insts :
        /\ ires[i].res = "Conflict"
        /\ old[i] # 0
        /\ tasks[old[i]].port = port[i]
        /\ tasks[old[i]].state = "done"

\* C25, as stated: the server that the destroy of a filter instance removes
\* from the port map and stops is one that this instance's own init started,
\* also when another instance with the same port has called init since.
C25_DestroyStopsOwnServerOnly ==
    [][\A i \in Insts :
          (/\ ipc[i] = "idle" /\ ipc'[i] \in {"destroy_await", "destroy_done"}
           /\ \E t \in TaskIds : tasks[t].owner = i
           /\ old'[i] # 0) =>
              tasks[old'[i]].owner = i]_vars

(***************************************************************************)
(* A further claim about the watcher, checked under SpecWatch.             *)
(***************************************************************************)
\* C26: the debounce looks at the unique alone and records it before the
\* trigger is dispatched.  A trigger taken from the scan leaves its unique in
\* the LRU whatever becomes of its dispatch, and a trigger whose unique is in
\* the LRU is skipped, whatever object and gateway it names and whether or
\* not an effect was applied for the unique: no cache or runtime call is made
\* for it.
C26_DebounceByUniqueAlone ==
    [][Visits =>
          LET k == Head(scanq)
          IN  /\ last'.key = k
              /\ k[1] \in Range(lru')
              /\ lru'[1] = k[1]
              /\ k[1] \in Range(lru) =>
                    /\ last'.skipped
                    /\ last'.calls = <<>>
                    /\ last'.fault = "none"
                    /\ applied' = applied
                    /\ wpc' = wpc
              /\ k[1] \notin Range(lru) => ~last'.skipped]_vars

\* C26, witness: two triggers share a unique, one for the gateway and one for
\* its routes; one effect was applied for the unique and the route trigger of
\* a present gateway has just been skipped.
C26_Witness ==
    /\ last.key # <<>> /\ last.skipped
    /\ Len(last.key) = 3 /\ last.key[2] = "httproute" /\ last.key[3] \in conf
    /\ applied[last.key[1]] = 1
    /\ \E k \in trig : k[1] = last.key[1] /\ k[2] = "gateway" /\ Len(k) = 3

(***************************************************************************)
(* Concurrent calls of resp_filter, checked under SpecConc.                *)
(***************************************************************************)
\* The calls that have returned, and whether any is under way.
Returned == {q \in Calls : rf[q].pc = "done"}
Settled == \A q \in Calls : rf[q].pc \in {"idle", "done"}

\* What one call does to the shared state when it runs alone; a call that
\* returned a cache failure has changed nothing.
Alone(s, r) ==
    IF ~r.ok THEN s
    ELSE IF r.kind = "error" THEN SeqError(s, r.g, r.b)
    ELSE SeqSuccess(s, r.g, r.b)

\* The calls of a sequence run one after the other from state s.
RECURSIVE OneByOne(_, _)
OneByOne(order, s) ==
    IF order = <<>> THEN s ELSE OneByOne(Tail(order), Alone(s, rf[Head(order)]))

\* The error responses among the returned calls that were counted.
Counted == {q \in Returned : rf[q].kind = "error" /\ rf[q].ok}

\* C21: whatever the interleaving of concurrent calls of resp_filter for one
\* backend, once they have returned the store and SERVER_ERR are what some
\* order of the same calls run one after the other leaves; no increment is
\* lost (from no entry, with entries that do not expire at once, the entry
\* counts every error handled); and at most one call at a time is between
\* taking the lock and inserting the entry, the holder of the lock.
C21_ConcurrentCallsSerialise ==
    /\ Settled =>
          \E order \in Orders(Returned) :
              OneByOne(order, base) = [store |-> store, serverErr |-> serverErr]
    /\ (Settled /\ Counted # {} /\ interval > 0 /\ \A b \in RespBackends : base.serverErr[b] = <<>>) =>
          \A b \in RespBackends : serverErr[b] = <<Cardinality(Counted), now + interval>>
    /\ Cardinality({q \in Calls : rf[q].pc \in {"write", "insert"}}) <= 1
    /\ \A q \in Calls : rf[q].pc \in {"write", "insert"} => serverErrLock = q

\* C21, witness: two error responses and one that is no error ran at once;
\* the latter read the status before an error overwrote it and wrote Good
\* after; all three have returned and both errors are counted.
C21_Witness ==
    /\ \A q \in Calls : rf[q].pc = "done" /\ rf[q].ok
    /\ Cardinality(Counted) = 2
    /\ \E q \in Calls :
          /\ rf[q].kind = "success"
          /\ rf[q].seen = "Minor"
          /\ GetStatus(store, rf[q].g, rf[q].b) = "Good"
    /\ \A b \in RespBackends : serverErr[b] # <<>> /\ serverErr[b][1] = 2

=============================================================================
